---- MODULE Spec2Model ----
(***************************************************************************)
(* Model of post_tweet.py: one invocation downloads the SQLite catalog     *)
(* from S3, picks a random row with uploaded = 0, downloads its image,     *)
(* pushes it through Twitter's INIT / APPEND / FINALIZE upload, posts the  *)
(* tweet, marks the row uploaded in the local copy of the catalog and      *)
(* writes the catalog back to S3.                                          *)
(*                                                                         *)
(* Strings that the code takes apart (bucket paths) are sequences of       *)
(* one-character strings; byte counts are plain integers.                  *)
(***************************************************************************)
EXTENDS Integers, Sequences, FiniteSets, TLC

\* ---------------------------------------------------------------- bounds
NumItems == 2
MaxRuns == 2

\* ------------------------------------------------------ program constants
REQUIRED_FIELDS ==
    {"db_bucket", "db_path", "twitter_api_key", "twitter_api_secret",
     "twitter_access_token", "twitter_access_secret"}

CHUNK_SIZE == 3 * 1024 * 1024

MAX_CAPTION == 280

\* ------------------------------------------------ inputs of the environment
Procs == {"A", "B"}
Items == 1 .. NumItems

\* config files: complete, lacking one or two required fields, and lacking
\* two while holding a key the code does not know
Configs ==
    {REQUIRED_FIELDS \ s : s \in SUBSET {"db_path", "twitter_api_key"}}
    \cup {(REQUIRED_FIELDS \ {"db_bucket", "twitter_access_secret"})
              \cup {"comment"}}

\* caption length and bucket path of the rows a catalog may hold
ImageRows ==
    { [caption_len |-> MAX_CAPTION,
       bucket_path |-> <<"i", "/", "a", ".", "J", "P", "G">>],
      [caption_len |-> MAX_CAPTION + 1,
       bucket_path |-> <<"b", ".", "p", "n", "g">>],
      [caption_len |-> MAX_CAPTION,
       bucket_path |-> <<"c", ".", "g", "i", "f">>],
      [caption_len |-> MAX_CAPTION,
       bucket_path |-> <<"d", "/", ".", "p", "n", "g">>] }

ImageSizes == {0, CHUNK_SIZE, CHUNK_SIZE + 1, 5 * 1024 * 1024 + 1}

MediaIds == {71, 72}

\* ---------------------------------------------------------- pure functions
RECURSIVE RFind(_, _, _)
\* str.rfind(c) over positions 1..n; 0 when c does not occur
RFind(s, c, n) ==
    IF n = 0 THEN 0
    ELSE IF s[n] = c THEN n
    ELSE RFind(s, c, n - 1)

basename(p) ==
    SubSeq(p, RFind(p, "/", Len(p)) + 1, Len(p))

\* the extension of p, as posixpath.splitext(p)[1]
splitext(p) ==
    LET sepIndex == RFind(p, "/", Len(p))
        dotIndex == RFind(p, ".", Len(p))
    IN  IF dotIndex > sepIndex
           /\ \E k \in (sepIndex + 1) .. (dotIndex - 1) : p[k] # "."
        THEN SubSeq(p, dotIndex, Len(p))
        ELSE << >>

LowerChar(c) ==
    CASE c = "P" -> "p" [] c = "N" -> "n" [] c = "G" -> "g"
      [] c = "J" -> "j" [] c = "E" -> "e" [] c = "I" -> "i"
      [] c = "F" -> "f" [] OTHER -> c

lower(s) == [k \in 1 .. Len(s) |-> LowerChar(s[k])]

MIME_TYPES ==
    [e \in { <<".", "p", "n", "g">>, <<".", "j", "p", "g">>,
             <<".", "j", "p", "e", "g">> } |->
        IF e = <<".", "p", "n", "g">> THEN "image/png" ELSE "image/jpeg"]

\* faulty variant: .gif passes the extension lookup
HasMimeType_Gif(image_name) ==
    lower(splitext(image_name))
        \in DOMAIN MIME_TYPES \cup { <<".", "g", "i", "f">> }

HasMimeType(image_name) == lower(splitext(image_name)) \in DOMAIN MIME_TYPES

\* faulty variant: only one of the missing fields is reported
MissingFields_First(cfg) ==
    IF REQUIRED_FIELDS \ cfg = {} THEN {}
    ELSE {CHOOSE f \in REQUIRED_FIELDS \ cfg : TRUE}

MissingFields(cfg) == REQUIRED_FIELDS \ cfg

\* faulty variant: the limit itself is rejected
CaptionTooLong_Geq(n) == n >= MAX_CAPTION

CaptionTooLong(n) == n > MAX_CAPTION

\* faulty variant: the SELECT without its WHERE clause
images_to_upload_NoFilter(db) == DOMAIN db

\* rows the SELECT ... WHERE uploaded = 0 returns
images_to_upload(db) == {i \in DOMAIN db : db[i].uploaded = 0}

\* faulty variant: the UPDATE without its WHERE clause
MarkUploaded_NoWhere(db, id) ==
    [i \in DOMAIN db |-> [db[i] EXCEPT !.uploaded = 1]]

\* faulty variant: the UPDATE flips the flag
MarkUploaded_Toggle(db, id) ==
    [i \in DOMAIN db |->
        IF i = id THEN [db[i] EXCEPT !.uploaded = 1 - @] ELSE db[i]]

\* UPDATE image2 SET uploaded = 1 WHERE id = ?
MarkUploaded(db, id) ==
    [i \in DOMAIN db |-> IF i = id THEN [db[i] EXCEPT !.uploaded = 1] ELSE db[i]]

\* faulty variant: a read always returns a whole chunk
Min_First(a, b) == a

Min(a, b) == IF a < b THEN a ELSE b

\* ------------------------------------------------------------------ state
VARIABLES
    s3db,            \* the catalog stored on S3: id -> row
    announced,       \* per item: how many times post_tweet returned for it
    runs,            \* invocations started so far
    pc,              \* per process: position in main()
    config,          \* per process: keys of the config file
    localdb,         \* per process: the temp-file copy of the catalog
    startdb,         \* per process: the S3 catalog when the invocation began
    img_id,          \* per process: selected row id, 0 before selection
    image_size,      \* per process: os.path.getsize of the image
    tell,            \* per process: image_file.tell()
    chunk_num,       \* per process
    media_id,        \* per process: media_id of the INIT response
    result,          \* per process: status of the last upload.json response
    processing_info, \* per process: processing_info of the FINALIZE response
    twitter_image_id,\* per process: result of upload_image_to_twitter
    response,        \* per process: the statuses/update response
    netlog,          \* per process: requests sent by this invocation
    err,             \* per process: the exception that ended main()
    stage,           \* per process: position at which the exception arose
    exitStatus       \* per process: -1 while running or when killed

durable == <<s3db, announced, runs>>
upload == <<image_size, tell, chunk_num, media_id, result, processing_info,
            twitter_image_id>>
vars == <<s3db, announced, runs, pc, config, localdb, startdb, img_id,
          image_size, tell, chunk_num, media_id, result, processing_info,
          twitter_image_id, response, netlog, err, stage, exitStatus>>

NoErr == [type |-> "none", msg |-> "none", item |-> 0, fields |-> {}]
NoResponse == [status |-> 0, body |-> "none"]
NoDb == [i \in {} |-> 0]

Req(cmd, mid, idx, off, n) ==
    [cmd |-> cmd, media_id |-> mid, segment_index |-> idx,
     offset |-> off, nbytes |-> n]

Running == {"get_db", "select", "get_image", "init", "append", "tweet",
            "commit", "put_db", "log"}
Ended == {"done", "failed", "killed"}

Rows ==
    {[caption_len |-> r.caption_len, bucket_path |-> r.bucket_path,
      uploaded |-> u] : r \in ImageRows, u \in {0, 1}}

Init ==
    /\ s3db \in [Items -> Rows]
    /\ announced = [i \in Items |-> 0]
    /\ runs = 0
    /\ pc = [p \in Procs |-> "idle"]
    /\ config = [p \in Procs |-> {}]
    /\ localdb = [p \in Procs |-> NoDb]
    /\ startdb = [p \in Procs |-> NoDb]
    /\ img_id = [p \in Procs |-> 0]
    /\ image_size = [p \in Procs |-> 0]
    /\ tell = [p \in Procs |-> 0]
    /\ chunk_num = [p \in Procs |-> 0]
    /\ media_id = [p \in Procs |-> 0]
    /\ result = [p \in Procs |-> 0]
    /\ processing_info = [p \in Procs |-> "none"]
    /\ twitter_image_id = [p \in Procs |-> 0]
    /\ response = [p \in Procs |-> NoResponse]
    /\ netlog = [p \in Procs |-> << >>]
    /\ err = [p \in Procs |-> NoErr]
    /\ stage = [p \in Procs |-> "none"]
    /\ exitStatus = [p \in Procs |-> -1]

\* main() raises e at its current position; __main__ logs it and exits 1
Raise(p, e) ==
    /\ pc' = [pc EXCEPT ![p] = "failed"]
    /\ err' = [err EXCEPT ![p] = e]
    /\ stage' = [stage EXCEPT ![p] = pc[p]]
    /\ exitStatus' = [exitStatus EXCEPT ![p] = 1]

Goto(p, l) ==
    /\ pc' = [pc EXCEPT ![p] = l]
    /\ UNCHANGED <<err, stage, exitStatus>>

Send(p, r) == netlog' = [netlog EXCEPT ![p] = Append(@, r)]

ConfigError(cfg) ==
    [type |-> "ImagePostException", msg |-> "Missing fields in config",
     item |-> 0, fields |-> MissingFields(cfg)]

CaptionError(id) ==
    [type |-> "ImagePostException", msg |-> "caption is too long",
     item |-> id, fields |-> {}]

\* the wrapper of the first try block
UploadError(id) ==
    [type |-> "ImagePostException", msg |-> "Failed to upload to Twitter",
     item |-> id, fields |-> {}]

\* the wrapper of the second try block
CommitError(id) ==
    [type |-> "ImagePostException", msg |-> "Failed to upload to Twitter",
     item |-> id, fields |-> {}]

S3Error == [type |-> "ClientError", msg |-> "download failed",
            item |-> 0, fields |-> {}]

EmptyChoice == [type |-> "IndexError",
                msg |-> "Cannot choose from an empty sequence",
                item |-> 0, fields |-> {}]

\* ---------------------------------------------------------------- actions
\* a new process reads its config file and checks the required fields
Begin(p, cfg) ==
    /\ pc[p] = "idle"
    /\ runs < MaxRuns
    /\ runs' = runs + 1
    /\ config' = [config EXCEPT ![p] = cfg]
    /\ startdb' = [startdb EXCEPT ![p] = s3db]
    /\ IF MissingFields(cfg) # {}
       THEN Raise(p, ConfigError(cfg))
       ELSE /\ pc' = [pc EXCEPT ![p] = "get_db"]
            /\ UNCHANGED <<err, stage, exitStatus>>
    /\ UNCHANGED <<s3db, announced, localdb, img_id, upload, response, netlog>>

\* invocations run one after another: cron starts one when none is running;
\* nothing tells such invocations apart, so they all run as the same process
Start(p) ==
    /\ p = "A"
    /\ \A q \in Procs : pc[q] = "idle"
    /\ \E cfg \in Configs : Begin(p, cfg)

\* get_s3_file of the catalog, outside any try block
GetDb(p) ==
    /\ pc[p] = "get_db"
    /\ Send(p, Req("S3_GET_DB", 0, 0, 0, 0))
    /\ \E ok \in BOOLEAN :
         IF ok
         THEN /\ localdb' = [localdb EXCEPT ![p] = s3db]
              /\ Goto(p, "select")
         ELSE /\ Raise(p, S3Error)
              /\ UNCHANGED localdb
    /\ UNCHANGED <<durable, config, startdb, img_id, upload, response>>

\* the SELECT, the random choice and the caption check
Select(p) ==
    /\ pc[p] = "select"
    /\ LET rows == images_to_upload(localdb[p])
       IN  IF rows = {}
           THEN /\ Raise(p, EmptyChoice)
                /\ UNCHANGED img_id
           ELSE \E i \in rows :
                  /\ img_id' = [img_id EXCEPT ![p] = i]
                  /\ IF CaptionTooLong(localdb[p][i].caption_len)
                     THEN Raise(p, CaptionError(i))
                     ELSE Goto(p, "get_image")
    /\ UNCHANGED <<durable, config, localdb, startdb, upload, response, netlog>>

\* statuses of an upload.json response, and raise_for_status
Statuses == {200, 500}

\* faulty variant: raise_for_status lets server errors through
StatusOk_Lenient(st) == st < 600

StatusOk(st) == st < 400

\* get_s3_file of the image; from here on every exception is wrapped
GetImage(p) ==
    /\ pc[p] = "get_image"
    /\ Send(p, Req("S3_GET_IMAGE", 0, 0, 0, 0))
    /\ \E ok \in BOOLEAN :
         IF ok
         THEN /\ \E n \in ImageSizes :
                   image_size' = [image_size EXCEPT ![p] = n]
              /\ Goto(p, "init")
         ELSE /\ Raise(p, UploadError(img_id[p]))
              /\ UNCHANGED image_size
    /\ UNCHANGED <<durable, config, localdb, startdb, img_id, tell, chunk_num,
                   media_id, result, processing_info, twitter_image_id,
                   response>>

\* upload_image_to_twitter up to the INIT response
InitUpload(p) ==
    /\ pc[p] = "init"
    /\ LET image_name == basename(localdb[p][img_id[p]].bucket_path)
       IN  IF ~HasMimeType(image_name)
           THEN /\ Raise(p, UploadError(img_id[p]))
                /\ UNCHANGED <<netlog, media_id, result>>
           ELSE /\ Send(p, Req("INIT", 0, 0, 0, image_size[p]))
                /\ \E st \in Statuses :
                     /\ result' = [result EXCEPT ![p] = st]
                     /\ IF StatusOk(st)
                        THEN /\ \E m \in MediaIds :
                                  media_id' = [media_id EXCEPT ![p] = m]
                             /\ Goto(p, "append")
                        ELSE /\ Raise(p, UploadError(img_id[p]))
                             /\ UNCHANGED media_id
    /\ UNCHANGED <<durable, config, localdb, startdb, img_id, image_size, tell,
                   chunk_num, processing_info, twitter_image_id, response>>

\* faulty variant: chunk_num is not advanced
AppendChunk_NoIncrement(p) ==
    /\ pc[p] = "append"
    /\ tell[p] < image_size[p]
    /\ LET n == Min(CHUNK_SIZE, image_size[p] - tell[p])
       IN  /\ tell' = [tell EXCEPT ![p] = @ + n]
           /\ Send(p, Req("APPEND", media_id[p], chunk_num[p], tell[p], n))
    /\ \E st \in Statuses :
         /\ result' = [result EXCEPT ![p] = st]
         /\ IF StatusOk(st)
            THEN Goto(p, "append")
            ELSE Raise(p, UploadError(img_id[p]))
    /\ UNCHANGED <<durable, config, localdb, startdb, img_id, image_size,
                   chunk_num, media_id, processing_info, twitter_image_id,
                   response>>

\* one turn of the while loop: read a chunk and post it
AppendChunk(p) ==
    /\ pc[p] = "append"
    /\ tell[p] < image_size[p]
    /\ LET n == Min(CHUNK_SIZE, image_size[p] - tell[p])
       IN  /\ tell' = [tell EXCEPT ![p] = @ + n]
           /\ Send(p, Req("APPEND", media_id[p], chunk_num[p], tell[p], n))
    /\ \E st \in Statuses :
         /\ result' = [result EXCEPT ![p] = st]
         /\ IF StatusOk(st)
            THEN /\ chunk_num' = [chunk_num EXCEPT ![p] = @ + 1]
                 /\ Goto(p, "append")
            ELSE /\ Raise(p, UploadError(img_id[p]))
                 /\ UNCHANGED chunk_num
    /\ UNCHANGED <<durable, config, localdb, startdb, img_id, image_size,
                   media_id, processing_info, twitter_image_id, response>>

\* processing_info.state of a FINALIZE response; "none" when it has none
ProcessingInfos == {"none", "pending", "succeeded"}

\* faulty variant: FINALIZE without raise_for_status
Finalize_NoStatusCheck(p) ==
    /\ pc[p] = "append"
    /\ ~(tell[p] < image_size[p])
    /\ Send(p, Req("FINALIZE", media_id[p], 0, 0, 0))
    /\ \E st \in Statuses :
         /\ result' = [result EXCEPT ![p] = st]
         /\ \E info \in ProcessingInfos :
              processing_info' = [processing_info EXCEPT ![p] = info]
         /\ twitter_image_id' = [twitter_image_id EXCEPT ![p] = media_id[p]]
         /\ Goto(p, "tweet")
    /\ UNCHANGED <<durable, config, localdb, startdb, img_id, image_size, tell,
                   chunk_num, media_id, response>>

\* faulty variant: a pending FINALIZE enters a wait that nothing ends
Finalize_WaitsOnPending(p) ==
    /\ pc[p] = "append"
    /\ ~(tell[p] < image_size[p])
    /\ Send(p, Req("FINALIZE", media_id[p], 0, 0, 0))
    /\ \E st \in Statuses :
         /\ result' = [result EXCEPT ![p] = st]
         /\ IF StatusOk(st)
            THEN /\ \E info \in ProcessingInfos :
                      /\ processing_info' =
                             [processing_info EXCEPT ![p] = info]
                      /\ Goto(p, IF info = "pending" THEN "status" ELSE "tweet")
                 /\ twitter_image_id' =
                        [twitter_image_id EXCEPT ![p] = media_id[p]]
            ELSE /\ Raise(p, UploadError(img_id[p]))
                 /\ UNCHANGED <<processing_info, twitter_image_id>>
    /\ UNCHANGED <<durable, config, localdb, startdb, img_id, image_size, tell,
                   chunk_num, media_id, response>>

\* the loop has ended: FINALIZE, and the return of media_id
Finalize(p) ==
    /\ pc[p] = "append"
    /\ ~(tell[p] < image_size[p])
    /\ Send(p, Req("FINALIZE", media_id[p], 0, 0, 0))
    /\ \E st \in Statuses :
         /\ result' = [result EXCEPT ![p] = st]
         /\ IF StatusOk(st)
            THEN /\ \E info \in ProcessingInfos :
                      processing_info' = [processing_info EXCEPT ![p] = info]
                 /\ twitter_image_id' =
                        [twitter_image_id EXCEPT ![p] = media_id[p]]
                 /\ Goto(p, "tweet")
            ELSE /\ Raise(p, UploadError(img_id[p]))
                 /\ UNCHANGED <<processing_info, twitter_image_id>>
    /\ UNCHANGED <<durable, config, localdb, startdb, img_id, image_size, tell,
                   chunk_num, media_id, response>>

\* what statuses/update may answer; status 0 is a request that got no answer
TweetResponses ==
    { [status |-> 200, body |-> "id"],
      [status |-> 500, body |-> "id"],
      [status |-> 403, body |-> "errors"],
      [status |-> 500, body |-> "html"],
      [status |-> 0, body |-> "none"] }

\* post_tweet returns a url when the body is JSON with an id
TweetReturns(r) == r.body = "id"

\* faulty variant: the row is marked uploaded on S3 when the tweet is sent
PostTweet_MarksFirst(p) ==
    /\ pc[p] = "tweet"
    /\ Send(p, Req("TWEET", twitter_image_id[p], 0, 0, 0))
    /\ s3db' = MarkUploaded(s3db, img_id[p])
    /\ \E r \in TweetResponses :
         /\ response' = [response EXCEPT ![p] = r]
         /\ IF TweetReturns(r)
            THEN /\ announced' = [announced EXCEPT ![img_id[p]] = @ + 1]
                 /\ Goto(p, "commit")
            ELSE /\ Raise(p, UploadError(img_id[p]))
                 /\ UNCHANGED announced
    /\ UNCHANGED <<runs, config, localdb, startdb, img_id, upload>>

\* statuses/update, and image_file.close()
PostTweet(p) ==
    /\ pc[p] = "tweet"
    /\ Send(p, Req("TWEET", twitter_image_id[p], 0, 0, 0))
    /\ \E r \in TweetResponses :
         /\ response' = [response EXCEPT ![p] = r]
         /\ IF TweetReturns(r)
            THEN /\ announced' = [announced EXCEPT ![img_id[p]] = @ + 1]
                 /\ Goto(p, "commit")
            ELSE /\ Raise(p, UploadError(img_id[p]))
                 /\ UNCHANGED announced
    /\ UNCHANGED <<s3db, runs, config, localdb, startdb, img_id, upload>>

\* UPDATE, commit and close on the local copy
Commit(p) ==
    /\ pc[p] = "commit"
    /\ \E ok \in BOOLEAN :
         IF ok
         THEN /\ localdb' = [localdb EXCEPT ![p] = MarkUploaded(@, img_id[p])]
              /\ Goto(p, "put_db")
         ELSE /\ Raise(p, CommitError(img_id[p]))
              /\ UNCHANGED localdb
    /\ UNCHANGED <<durable, config, startdb, img_id, upload, response, netlog>>

\* faulty variant: a failed write-back is not raised
PutDb_SwallowsError(p) ==
    /\ pc[p] = "put_db"
    /\ Send(p, Req("S3_PUT_DB", 0, 0, 0, 0))
    /\ \E ok \in BOOLEAN :
         /\ s3db' = IF ok THEN localdb[p] ELSE s3db
         /\ Goto(p, "log")
    /\ UNCHANGED <<announced, runs, config, localdb, startdb, img_id, upload,
                   response>>

\* upload_s3_file: the local copy replaces the catalog on S3
PutDb(p) ==
    /\ pc[p] = "put_db"
    /\ Send(p, Req("S3_PUT_DB", 0, 0, 0, 0))
    /\ \E ok \in BOOLEAN :
         IF ok
         THEN /\ s3db' = localdb[p]
              /\ Goto(p, "log")
         ELSE /\ Raise(p, CommitError(img_id[p]))
              /\ UNCHANGED s3db
    /\ UNCHANGED <<announced, runs, config, localdb, startdb, img_id, upload,
                   response>>

\* log_success, os.remove, return 0
LogSuccess(p) ==
    /\ pc[p] = "log"
    /\ pc' = [pc EXCEPT ![p] = "done"]
    /\ exitStatus' = [exitStatus EXCEPT ![p] = 0]
    /\ UNCHANGED <<durable, config, localdb, startdb, img_id, upload, response,
                   netlog, err, stage>>

\* the process is killed where it stands
Crash(p) ==
    /\ pc[p] \in Running
    /\ pc' = [pc EXCEPT ![p] = "killed"]
    /\ stage' = [stage EXCEPT ![p] = pc[p]]
    /\ UNCHANGED <<durable, config, localdb, startdb, img_id, upload, response,
                   netlog, err, exitStatus>>

\* the process is gone, with everything it held in memory and temp files
Exit(p) ==
    /\ pc[p] \in Ended
    /\ pc' = [pc EXCEPT ![p] = "idle"]
    /\ config' = [config EXCEPT ![p] = {}]
    /\ localdb' = [localdb EXCEPT ![p] = NoDb]
    /\ startdb' = [startdb EXCEPT ![p] = NoDb]
    /\ img_id' = [img_id EXCEPT ![p] = 0]
    /\ image_size' = [image_size EXCEPT ![p] = 0]
    /\ tell' = [tell EXCEPT ![p] = 0]
    /\ chunk_num' = [chunk_num EXCEPT ![p] = 0]
    /\ media_id' = [media_id EXCEPT ![p] = 0]
    /\ result' = [result EXCEPT ![p] = 0]
    /\ processing_info' = [processing_info EXCEPT ![p] = "none"]
    /\ twitter_image_id' = [twitter_image_id EXCEPT ![p] = 0]
    /\ response' = [response EXCEPT ![p] = NoResponse]
    /\ netlog' = [netlog EXCEPT ![p] = << >>]
    /\ err' = [err EXCEPT ![p] = NoErr]
    /\ stage' = [stage EXCEPT ![p] = "none"]
    /\ exitStatus' = [exitStatus EXCEPT ![p] = -1]
    /\ UNCHANGED durable

Step(p) ==
    \/ GetDb(p)
    \/ Select(p)
    \/ GetImage(p)
    \/ InitUpload(p)
    \/ AppendChunk(p)
    \/ Finalize(p)
    \/ PostTweet(p)
    \/ Commit(p)
    \/ PutDb(p)
    \/ LogSuccess(p)

Next ==
    \E p \in Procs :
        \/ Start(p)
        \/ Step(p)
        \/ Crash(p)
        \/ Exit(p)

Spec == Init /\ [][Next]_vars

\* catalogs whose rows all pass the caption and extension checks
UploadableInit ==
    /\ Init
    /\ \A i \in Items :
          /\ ~CaptionTooLong(s3db[i].caption_len)
          /\ HasMimeType(basename(s3db[i].bucket_path))
          /\ s3db[i].bucket_path = s3db[1].bucket_path

\* a started invocation keeps taking steps until it ends or is killed:
\* main() is straight-line blocking code with no wait on another process
FairSpec ==
    /\ UploadableInit
    /\ [][Next]_vars
    /\ \A p \in Procs : WF_vars(Step(p))

\* a second cron job (or a manual run) starts while another process is
\* still running: nothing in main() looks for another instance
StartOverlapping(p) ==
    \E cfg \in Configs : Begin(p, cfg)

\* the overlapping runs are explored with one-chunk images, one media id,
\* no processing metadata and a config that is complete or lacks db_path
SmallEnvironment ==
    \A p \in Procs :
        /\ image_size[p] \in {0, CHUNK_SIZE}
        /\ media_id[p] \in {0, 71}
        /\ processing_info[p] = "none"
        /\ response[p].status \in {0, 200}
        /\ config[p] \in {{}, REQUIRED_FIELDS, REQUIRED_FIELDS \ {"db_path"}}

OverlapNext ==
    \E p \in Procs :
        \/ StartOverlapping(p) /\ SmallEnvironment'
        \/ GetDb(p) /\ SmallEnvironment'
        \/ Select(p) /\ SmallEnvironment'
        \/ GetImage(p) /\ SmallEnvironment'
        \/ InitUpload(p) /\ SmallEnvironment'
        \/ AppendChunk(p) /\ SmallEnvironment'
        \/ Finalize(p) /\ SmallEnvironment'
        \/ PostTweet(p) /\ SmallEnvironment'
        \/ Commit(p) /\ SmallEnvironment'
        \/ PutDb(p) /\ SmallEnvironment'
        \/ LogSuccess(p) /\ SmallEnvironment'
        \/ Crash(p) /\ SmallEnvironment'
        \/ Exit(p) /\ SmallEnvironment'

\* catalogs of unpublished rows that pass the caption and extension checks
UnpublishedInit ==
    /\ UploadableInit
    /\ \A i \in Items : s3db[i].uploaded = 0

OverlapSpec == UnpublishedInit /\ [][OverlapNext]_vars

\* ----------------------------------------------------------------- claims
Cmds(p) == {netlog[p][k].cmd : k \in 1 .. Len(netlog[p])}

UploadCmds == {"INIT", "APPEND", "FINALIZE"}

\* positions of main() that precede the commit step
BeforeCommit == {"get_image", "init", "append", "tweet"}

\* C1: no work item is announced more than once, whatever step of whatever
\* invocation fails or is killed.
NoDoubleAnnouncement ==
    \A i \in Items : announced[i] <= 1

\* C2: an invocation that failed before the commit step leaves the catalog
\* on S3 as it was when the invocation began, and the item it had selected
\* is still unpublished there.
FailureBeforeCommitKeepsCatalog ==
    \A p \in Procs :
        (pc[p] = "failed" /\ stage[p] \in BeforeCommit) =>
            /\ s3db = startdb[p]
            /\ s3db[img_id[p]].uploaded = 0

FailedAfterAnnouncementRequest ==
    \E p \in Procs :
        /\ pc[p] = "failed"
        /\ stage[p] = "tweet"
        /\ "TWEET" \in Cmds(p)

\* C3: with no unpublished item in the catalog the invocation ends with
\* exit status 0 and no error, without upload, announcement or catalog change.
EmptyQueueEndsSuccessfully ==
    \A p \in Procs :
        (/\ pc[p] \in {"done", "failed"}
         /\ localdb[p] # NoDb
         /\ \A i \in Items : startdb[p][i].uploaded = 1) =>
            /\ exitStatus[p] = 0
            /\ err[p] = NoErr
            /\ Cmds(p) \cap (UploadCmds \cup {"TWEET", "S3_PUT_DB"}) = {}
            /\ s3db = startdb[p]

\* C4: the item selection picks is unpublished in the catalog as it was read,
\* selection changes no catalog, and every request for an image, an upload
\* or an announcement is made for an item that was read as unpublished.
SelectionPicksUnpublished ==
    [][\A p \in Procs :
          /\ (img_id'[p] # img_id[p] /\ img_id'[p] # 0) =>
                /\ localdb[p][img_id'[p]].uploaded = 0
                /\ s3db' = s3db
                /\ localdb' = localdb
          /\ (Len(netlog'[p]) > Len(netlog[p])
              /\ netlog'[p][Len(netlog'[p])].cmd
                    \in UploadCmds \cup {"S3_GET_IMAGE", "TWEET"}) =>
                /\ img_id[p] # 0
                /\ localdb[p][img_id[p]].uploaded = 0
                /\ startdb[p][img_id[p]].uploaded = 0]_vars

AnnouncedBesidePublishedItem ==
    \E p \in Procs :
        /\ pc[p] = "commit"
        /\ \E i \in Items : localdb[p][i].uploaded = 1

\* C5: a published flag on S3 never goes back from 1 to 0 (so it rises at
\* most once), and the commit step applied again to a catalog it has just
\* been applied to leaves that catalog as it is.
PublishedMonotonicCommitIdempotent ==
    [][/\ \A i \in Items : s3db[i].uploaded = 1 => s3db'[i].uploaded = 1
       /\ \A p \in Procs :
            /\ (pc[p] = "commit" /\ pc'[p] = "put_db") =>
                  MarkUploaded(localdb'[p], img_id[p]) = localdb'[p]
            /\ (pc[p] = "put_db" /\ pc'[p] = "log") =>
                  MarkUploaded(s3db', img_id[p]) = s3db']_vars

CatalogWrittenBack ==
    \E p \in Procs :
        /\ pc[p] = "log"
        /\ s3db # startdb[p]
        /\ s3db[img_id[p]].uploaded = 1

\* C6: a config that lacks required fields ends the invocation with a
\* configuration error naming exactly the required fields it lacks, before
\* any request is sent or any catalog is read; a complete config never does.
ConfigErrorNamesAllMissing ==
    \A p \in Procs :
        pc[p] # "idle" =>
            IF \E f \in REQUIRED_FIELDS : f \notin config[p]
            THEN /\ pc[p] = "failed"
                 /\ exitStatus[p] = 1
                 /\ err[p].msg = "Missing fields in config"
                 /\ err[p].fields = {f \in REQUIRED_FIELDS : f \notin config[p]}
                 /\ netlog[p] = << >>
                 /\ localdb[p] = NoDb
                 /\ img_id[p] = 0
                 /\ s3db = startdb[p]
            ELSE err[p].msg # "Missing fields in config"

SeveralFieldsMissing ==
    \E p \in Procs :
        /\ pc[p] = "failed"
        /\ Cardinality(err[p].fields) >= 2
        /\ "comment" \in config[p]

\* C7: the error that ends an invocation whose commit step failed differs
\* from the error an upload or announcement failure ends it with.
CommitFailureDistinct ==
    \A p \in Procs :
        (pc[p] = "failed" /\ stage[p] \in {"commit", "put_db"}) =>
            err[p] \notin {UploadError(i) : i \in Items}

CaptionRejectedBeforeAnyRequest ==
    \A p \in Procs :
        img_id[p] # 0 =>
            IF startdb[p][img_id[p]].caption_len > 280
            THEN /\ pc[p] = "failed"
                 /\ err[p].msg = "caption is too long"
                 /\ netlog[p] = << >>
                 /\ s3db = startdb[p]
            ELSE err[p].msg # "caption is too long"

\* C10 as amended: a caption of exactly 280 passes and the dispatch
\* proceeds; a longer one fails the invocation when the only request made
\* is the download of the catalog, with the catalog unchanged.
CaptionRejectedBeforeImageRequests ==
    \A p \in Procs :
        img_id[p] # 0 =>
            IF startdb[p][img_id[p]].caption_len > 280
            THEN /\ pc[p] = "failed"
                 /\ stage[p] = "select"
                 /\ exitStatus[p] = 1
                 /\ err[p].msg = "caption is too long"
                 /\ err[p].item = img_id[p]
                 /\ Cmds(p) = {"S3_GET_DB"}
                 /\ Len(netlog[p]) = 1
                 /\ s3db = startdb[p]
                 /\ localdb[p] = startdb[p]
            ELSE /\ err[p].msg # "caption is too long"
                 /\ pc[p] # "select"
                 /\ (pc[p] = "failed" => stage[p] # "select")

CaptionRejectedAfterLimitCaptionAnnounced ==
    \E p \in Procs :
        /\ pc[p] = "failed"
        /\ err[p].msg = "caption is too long"
        /\ \E i \in Items :
              /\ s3db[i].caption_len = 280
              /\ s3db[i].uploaded = 1
              /\ announced[i] = 1

\* the size ceiling of a payload
SizeCeiling == 5 * 1024 * 1024

\* C11: no INIT (nor any later upload or announcement request) is sent for
\* a payload larger than the size ceiling; the invocation fails instead.
OversizePayloadRejected ==
    \A p \in Procs :
        (image_size[p] > SizeCeiling /\ pc[p] # "init") =>
            /\ pc[p] \in {"failed", "killed"}
            /\ Cmds(p) \cap (UploadCmds \cup {"TWEET"}) = {}

\* C12: an announcement answered with an error status, whatever its body,
\* fails the invocation: no success exit, and the selected item stays
\* unpublished in the local copy and on S3.
AnnouncementErrorFailsRun ==
    \A p \in Procs :
        response[p].status >= 400 =>
            /\ pc[p] = "failed"
            /\ exitStatus[p] = 1
            /\ localdb[p][img_id[p]].uploaded = 0
            /\ s3db[img_id[p]].uploaded = 0

\* the APPEND requests of an invocation, in the order sent
Appends(p) == SelectSeq(netlog[p], LAMBDA r : r.cmd = "APPEND")

\* C13: the APPEND requests of a session carry the indices 0, 1, 2, ... in
\* order and the media id INIT returned, and each but the last sent has
\* been answered with success before the next one is sent.
AppendsInOrder ==
    \A p \in Procs :
        LET a == Appends(p)
        IN  /\ \A k \in 1 .. Len(a) :
                  /\ a[k].segment_index = k - 1
                  /\ a[k].media_id = media_id[p]
                  /\ a[k].media_id \in MediaIds
            /\ Len(a) \in {chunk_num[p], chunk_num[p] + 1}
            /\ Len(a) = chunk_num[p] + 1 =>
                  /\ pc[p] = "failed"
                  /\ stage[p] = "append"
                  /\ result[p] >= 400

TwoAppendsAcknowledged ==
    \E p \in Procs :
        /\ Len(Appends(p)) = 2
        /\ chunk_num[p] = 2
        /\ pc[p] = "tweet"

\* C14: the segments sent are at most 3 MiB each, all but the last exactly
\* 3 MiB, contiguous from offset 0, never more than the payload needs; and
\* once FINALIZE is sent they add up to the total_bytes declared at INIT.
ChunksReassemblePayload ==
    \A p \in Procs :
        LET a == Appends(p)
            n == Len(a)
        IN  /\ \A k \in 1 .. n :
                  /\ a[k].nbytes > 0
                  /\ a[k].nbytes <= 3 * 1024 * 1024
                  /\ a[k].offset = (k - 1) * (3 * 1024 * 1024)
                  /\ k < n => a[k].nbytes = 3 * 1024 * 1024
                  /\ a[k].offset + a[k].nbytes <= image_size[p]
            /\ "FINALIZE" \in Cmds(p) =>
                  /\ IF n = 0 THEN image_size[p] = 0
                     ELSE a[n].offset + a[n].nbytes = image_size[p]
                  /\ \A k \in 1 .. Len(netlog[p]) :
                        netlog[p][k].cmd = "INIT" =>
                            netlog[p][k].nbytes = image_size[p]

FinalizedAfterShortLastChunk ==
    \E p \in Procs :
        /\ "FINALIZE" \in Cmds(p)
        /\ Len(Appends(p)) = 2
        /\ Appends(p)[2].nbytes < CHUNK_SIZE

RecognisedPaths ==
    { <<"i", "/", "a", ".", "J", "P", "G">>, <<"b", ".", "p", "n", "g">> }

\* C16: for a selected item whose name has no recognised extension no
\* request goes to the upload or announcement service, both catalogs stay
\* as they were, and the extension lookup ends the invocation with an error.
UnknownExtensionRejected ==
    \A p \in Procs :
        (img_id[p] # 0
         /\ localdb[p][img_id[p]].bucket_path \notin RecognisedPaths) =>
            /\ Cmds(p) \cap (UploadCmds \cup {"TWEET", "S3_PUT_DB"}) = {}
            /\ s3db = startdb[p]
            /\ localdb[p] = startdb[p]
            /\ pc[p] \in {"get_image", "init", "failed", "killed"}
            /\ (pc[p] = "failed" /\ stage[p] = "init") =>
                  /\ exitStatus[p] = 1
                  /\ err[p].type = "ImagePostException"
                  /\ err[p].item = img_id[p]

DotFileRejectedAtLookup ==
    \E p \in Procs :
        /\ pc[p] = "failed"
        /\ stage[p] = "init"
        /\ localdb[p][img_id[p]].bucket_path = <<"d", "/", ".", "p", "n", "g">>
        /\ netlog[p][Len(netlog[p])].cmd = "S3_GET_IMAGE"

Rank(cmd) ==
    CASE cmd = "S3_GET_DB" -> 1 [] cmd = "S3_GET_IMAGE" -> 2
      [] cmd = "INIT" -> 3 [] cmd = "APPEND" -> 4 [] cmd = "FINALIZE" -> 5
      [] cmd = "TWEET" -> 6 [] cmd = "S3_PUT_DB" -> 7

\* C17: requests go out in the order INIT, APPENDs, FINALIZE, tweet, catalog
\* write-back; the tweet follows a FINALIZE answered 2xx and carries the
\* media id of INIT; the row is marked only once post_tweet has returned for
\* it; and the run ends in success only with the marked catalog on S3.
StepsInOrder ==
    \A p \in Procs :
        /\ \A j, k \in 1 .. Len(netlog[p]) :
              j < k =>
                  \/ Rank(netlog[p][j].cmd) < Rank(netlog[p][k].cmd)
                  \/ netlog[p][j].cmd = "APPEND" /\ netlog[p][k].cmd = "APPEND"
        /\ \A k \in 1 .. Len(netlog[p]) :
              netlog[p][k].cmd = "TWEET" =>
                  /\ {"INIT", "FINALIZE"} \subseteq Cmds(p)
                  /\ result[p] = 200
                  /\ netlog[p][k].media_id = media_id[p]
                  /\ media_id[p] \in MediaIds
        /\ ((localdb[p] # NoDb /\ localdb[p] # startdb[p])
            \/ (pc[p] # "idle" /\ s3db # startdb[p])) =>
              /\ "TWEET" \in Cmds(p)
              /\ response[p].body = "id"
              /\ announced[img_id[p]] >= 1
              /\ localdb[p] = MarkUploaded(startdb[p], img_id[p])
        /\ (pc[p] # "idle" /\ s3db # startdb[p]) =>
              /\ "S3_PUT_DB" \in Cmds(p)
              /\ s3db = localdb[p]
        /\ (pc[p] = "done" \/ exitStatus[p] = 0) =>
              /\ netlog[p][Len(netlog[p])].cmd = "S3_PUT_DB"
              /\ s3db = localdb[p]
              /\ s3db[img_id[p]].uploaded = 1

DoneAfterAppend ==
    \E p \in Procs :
        /\ pc[p] = "done"
        /\ Len(Appends(p)) >= 1

\* C18: two invocations that overlap never hold the same item id as their
\* selection at the same time.
NoSharedSelection ==
    \A p, q \in Procs :
        (p # q /\ pc[p] \in Running /\ pc[q] \in Running
         /\ img_id[p] # 0 /\ img_id[q] # 0) =>
            img_id[p] # img_id[q]

\* C19: when two overlapping invocations that selected different items have
\* both written the catalog back, both items are published on S3.
BothFlagsSurvive ==
    \A p, q \in Procs :
        (p # q /\ pc[p] \in {"log", "done"} /\ pc[q] \in {"log", "done"}
         /\ img_id[p] # img_id[q]) =>
            /\ s3db[img_id[p]].uploaded = 1
            /\ s3db[img_id[q]].uploaded = 1

\* the announcement requests of an invocation
Tweets(p) == SelectSeq(netlog[p], LAMBDA r : r.cmd = "TWEET")

\* C20: an invocation keeps the one item it selected, sends at most one
\* announcement request and only for that item, and the catalog (its local
\* copy and the one on S3) differs from the catalog it started from at most
\* in the selected row's flag, which is then 1.
OnlySelectedFlagChanges ==
    [][\A p \in Procs :
          /\ img_id[p] # 0 => img_id'[p] \in {img_id[p], 0}
          /\ Len(Tweets(p)') <= 1
          /\ \A i \in Items :
                announced'[i] # announced[i] =>
                    /\ announced'[i] = announced[i] + 1
                    /\ \E q \in Procs : pc[q] = "tweet" /\ img_id[q] = i
          /\ pc'[p] # "idle" =>
                /\ DOMAIN s3db' = DOMAIN startdb'[p]
                /\ \A i \in Items :
                      s3db'[i] # startdb'[p][i] =>
                          /\ i = img_id'[p]
                          /\ s3db'[i] = [startdb'[p][i] EXCEPT !.uploaded = 1]
          /\ localdb'[p] # NoDb =>
                /\ DOMAIN localdb'[p] = DOMAIN startdb'[p]
                /\ \A i \in Items :
                      localdb'[p][i] # startdb'[p][i] =>
                          /\ i = img_id'[p]
                          /\ localdb'[p][i] =
                                [startdb'[p][i] EXCEPT !.uploaded = 1]]_vars

DoneWithAnotherItemPending ==
    \E p \in Procs :
        /\ pc[p] = "done"
        /\ s3db[img_id[p]].uploaded = 1
        /\ \E i \in Items : i # img_id[p] /\ s3db[i].uploaded = 0

====
